---- MODULE Spec2Model ----
(***************************************************************************)
(* Model of bot.py: the periodic FACEIT sync task (faceit_sync_task), the  *)
(* /faceitsync command that changes the interval and restarts the task,    *)
(* the commands that change the links file (/linkfaceit, /unlinkfaceit) or *)
(* apply ranks (/faceitupdate, /faceitupdateall), and the asyncio event    *)
(* loop they all run on.                                                   *)
(*                                                                         *)
(* asyncio runs one coroutine at a time.  A coroutine keeps the loop until *)
(* it reaches an await that suspends; `running` is the task that holds the *)
(* loop (0: none) and `readyQ` is the loop's FIFO queue of tasks whose     *)
(* next step is scheduled (call_soon).  Task.cancel() schedules the task   *)
(* and makes its next step raise CancelledError at the await it is         *)
(* suspended in.  requests.get is a blocking call: it does not suspend.    *)
(*                                                                         *)
(* guild.roles, member.roles and guild.get_member are read as the          *)
(* platform's current state, except that get_member may miss a member      *)
(* (the member cache is incomplete).  An awaited platform call takes       *)
(* effect when its answer arrives; a call whose caller is cancelled while  *)
(* it waits for the answer may or may not have taken effect.               *)
(*                                                                         *)
(* `last_link` and `unlinked` are history variables: they record what the  *)
(* link and unlink commands were asked to do and do not affect any action. *)
(* /syncstatus only reads the state; it is the operator `syncstatus`.      *)
(***************************************************************************)
EXTENDS Integers, Sequences, FiniteSets, TLC

\* ------------------------------------------------------------------ bounds
MaxTasks == 3        \* sync tasks ever created (setup_hook + accepted /faceitsync)
MaxTier  == 2        \* skill levels the provider may report: 1..MaxTier
MaxRoles == 4        \* role slots of a guild; create_role fails when all are used

\* --------------------------------------------------------- program constants
DefaultIntervalMinutes == 360
BackoffSeconds == 60
SecondsPerMinute == 60

Tasks    == 1..MaxTasks
Cmds     == {MaxTasks + 1}         \* the command coroutine suspended in an await
Accounts == {1, 2}                 \* Discord user ids that may be linked
Guilds   == <<"g1">>               \* bot.guilds
GuildSet == {Guilds[i] : i \in 1..Len(Guilds)}
RoleIds  == 1..MaxRoles
Levels   == 1..MaxTier
MinutesInputs == {0, 1, 5}         \* arguments given to /faceitsync
Usernames == {"alice", "bob"}      \* FACEIT nicknames given to /linkfaceit

\* str(faceit_level); level 0 stands for a skill_level that is missing, None
\* or 0
LevelStr(k) ==
  IF k = 0 THEN "None"
  ELSE <<"1", "2", "3", "4", "5", "6", "7", "8", "9", "10">>[k]

\* A role name is modelled as <<prefix, rest>>; name.startswith("FACEIT Level ")
\* is a test of the first component.
RankPrefix == "FACEIT Level "
NoName == <<"", "">>
RoleName(level) == <<RankPrefix, LevelStr(level)>>
StartsWithRankPrefix(name) == name[1] = RankPrefix
OtherNames == {<<"", "Moderator">>, <<RankPrefix, "VIP">>}
Names == {RoleName(k) : k \in Levels} \cup OtherNames

Range(s) == {s[i] : i \in 1..Len(s)}
Min(S) == CHOOSE x \in S : \A y \in S : x <= y

VARIABLES
  SYNC_INTERVAL_MINUTES,  \* global, line 55
  sync_task,              \* global, line 56: id of the latest task, 0 = None
  task,                   \* the sync task objects (coroutine frame + Task state)
  nTasks,                 \* tasks created so far
  running,                \* task that holds the event loop, 0 = none
  readyQ,                 \* event loop ready queue (FIFO)
  ready,                  \* bot.wait_until_ready() would return at once
  closed,                 \* bot.is_closed()
  links_file,             \* faceit_links.json: sequence of <<user_id, username>>
  guild_members,          \* [guild -> set of accounts]
  guild_roles,            \* [guild -> [role id -> name]], NoName = unused slot
  member_roles,           \* [guild -> [account -> set of role ids]]
  lastResponse,           \* last interaction.response.send_message of /faceitsync
  provider,               \* [account -> what the FACEIT API answers for its username]
  settled,                \* the environment has settled: calls succeed, ranks are fixed
  cmd,                    \* the slash commands in flight (coroutine frames)
  last_link,              \* history: [account -> username the last permitted
                          \* /linkfaceit gave it, "none" after /unlinkfaceit]
  unlinked                \* history: accounts whose /unlinkfaceit ended with
                          \* every removal served and no /linkfaceit since

vars == <<SYNC_INTERVAL_MINUTES, sync_task, task, nTasks, running, readyQ, ready,
          closed, links_file, guild_members, guild_roles, member_roles, lastResponse,
          provider, settled, cmd, last_link, unlinked>>

history == <<last_link, unlinked>>

environment == <<provider, settled>>

platform == <<guild_members, guild_roles, member_roles>>

\* pcs at which a task is suspended in an await
AwaitPcs == {"wait_ready", "fetch_member", "create_role", "remove_roles",
             "add_roles", "sleep", "backoff"}
\* pcs between line 62 (try) and line 116 (cycle complete) / the except clause
PassPcs == {"iter", "fetch_member", "fetch", "resolve", "create_role",
            "remove_loop", "remove_roles", "check_add", "add_roles"}

NoRes == [a \in Accounts |-> "none"]

\* A task that does not exist yet.  Fields after `sleepDur` are history
\* fields that record what the properties speak about:
\*   interval    minutes given by the call that created the task
\*   bornReady   the bot was ready when the task was created
\*   result      how the task ended
\*   passed      the task has started a pass
\*   fails       consecutive failed passes the task has ended, counted up to 3
\*   completed   the last pass the task ended ran to completion
\*   printed     what the task printed when its last pass ended: the line of
\*               line 116 ("cycle_complete") or of line 122 ("error")
\*   res         per account, what the rank fetch of the current pass came to
\*               ("none": not reached, "nomember": member lookup failed)
\*   wfail       account whose platform write raised in the current pass
\*   loadFailed  the links file could not be read for the current pass
NoTask == [pc |-> "none", cancelReq |-> FALSE, wake |-> "ok", links |-> <<>>,
           gi |-> 1, li |-> 1, member |-> 0, role |-> 0, level |-> 0, rem |-> {},
           sleepDur |-> 0,
           interval |-> 0, bornReady |-> FALSE, result |-> "",
           passed |-> FALSE, fails |-> 0, completed |-> FALSE, printed |-> "",
           res |-> NoRes, wfail |-> 0, loadFailed |-> FALSE]

\* loop.create_task(faceit_sync_task())
NewTask == [NoTask EXCEPT !.pc = "created"]

\* the task object after its coroutine returned ("finished") or raised
\* CancelledError ("cancelled"); a task cancelled before its first step is
\* recorded as "unstarted"
Finish(rec, how) == [NoTask EXCEPT !.pc = "done", !.result = how]

Done(t) == task[t].pc = "done"
Exists(t) == task[t].pc # "none"
Live(t) == Exists(t) /\ ~Done(t)
Waiting(t) == task[t].pc \in AwaitPcs /\ t \notin Range(readyQ)
InPass(t) == task[t].pc \in PassPcs

Enqueue(q, t) == IF t \in Range(q) THEN q ELSE Append(q, t)

\* the elements of a set of task ids, oldest first
RECURSIVE InOrder(_)
InOrder(S) == IF S = {} THEN <<>> ELSE <<Min(S)>> \o InOrder(S \ {Min(S)})

\* what requests.get and the parsing of its answer can come to, lines 87-100:
\* the call raises (connection error, timeout), the status is not 200, the
\* body is no JSON, or the status is 200 with skill_level `level`
\* (0: key missing, None or 0)
FetchResults ==
  {[kind |-> "raise", level |-> 0], [kind |-> "status", level |-> 0],
   [kind |-> "badjson", level |-> 0]}
  \cup {[kind |-> "ok", level |-> k] : k \in 0..MaxTier}

\* The provider's answer for a username is fixed once the environment has
\* settled; before that it may answer anything at each call.
AnyAnswer == [kind |-> "any", level |-> 0]
Answers(username, r) == provider[username] = AnyAnswer \/ provider[username] = r

\* answers of a provider that works: a status, or 200 with or without a level
SettledAnswers == {r \in FetchResults : r.kind \in {"status", "ok"}}

\* a slash command coroutine; `kind` is the command, the other fields are its
\* local variables (as in the sync task)
NoCmd == [kind |-> "", pc |-> "idle", wake |-> "ok", links |-> <<>>, gi |-> 1,
          li |-> 1, member |-> 0, role |-> 0, level |-> 0, rem |-> {},
          failed |-> FALSE]    \* a remove_roles of /unlinkfaceit raised

\* ------------------------------------------------------------ initial state
InitRoles ==
  << [r \in RoleIds |-> CASE r = 1 -> <<"", "Moderator">>
                         [] r = 2 -> RoleName(1)
                         [] r = 3 -> <<RankPrefix, "VIP">>
                         [] OTHER -> NoName],
     [r \in RoleIds |-> CASE r = 1 -> <<"", "Moderator">>
                         [] r = 2 -> RoleName(1)
                         [] r = 3 -> RoleName(2)
                         [] OTHER -> NoName] >>

\* roles the members hold at the start: none, another role and a rank role,
\* two roles whose names start with the rank prefix
InitHeld == [Accounts -> {{}, {1, 2}, {2, 3}}]

Used(roles) == {r \in RoleIds : roles[r] # NoName}

\* the state after the module is loaded, before setup_hook (lines 35-56)
Boot ==
  /\ SYNC_INTERVAL_MINUTES = DefaultIntervalMinutes
  /\ sync_task = 0
  /\ task = [t \in Tasks |-> NoTask]
  /\ nTasks = 0
  /\ running = 0
  /\ readyQ = <<>>
  /\ ready = FALSE
  /\ closed = FALSE
  /\ lastResponse = ""
  /\ cmd = [c \in Cmds |-> NoCmd]

\* an environment that has not settled: calls may fail, ranks may change
Unsettled ==
  /\ provider = [u \in Usernames |-> AnyAnswer]
  /\ settled = FALSE

\* a platform state the bot can meet: members hold roles of the guild only
Consistent ==
  \A g \in GuildSet : \A a \in Accounts :
    /\ member_roles[g][a] \subseteq Used(guild_roles[g])
    /\ a \notin guild_members[g] => member_roles[g][a] = {}

\* the username the mapping holds for an account, "none" without an entry
Stored(links, a) ==
  IF \E i \in 1..Len(links) : links[i][1] = a
  THEN links[CHOOSE i \in 1..Len(links) : links[i][1] = a][2]
  ELSE "none"

\* the history starts from the mapping in the file
Recorded ==
  /\ last_link = [a \in Accounts |-> Stored(links_file, a)]
  /\ unlinked = {}

\* one linked member who holds the level 1 role; level 2 has no role yet
Init ==
  /\ Boot
  /\ Unsettled
  /\ links_file = <<<<1, "alice">>>>
  /\ guild_members = [g \in GuildSet |-> {1}]
  /\ guild_roles = [g \in GuildSet |-> InitRoles[1]]
  /\ member_roles = [g \in GuildSet |-> [a \in Accounts |-> IF a = 1 THEN {1, 2} ELSE {}]]
  /\ Recorded

\* two linked accounts in either order, one of them possibly not a member,
\* every combination of roles held at the start
PassInit ==
  /\ Boot
  /\ Unsettled
  /\ links_file \in {<<<<1, "alice">>, <<2, "bob">>>>, <<<<2, "bob">>, <<1, "alice">>>>}
  /\ guild_members \in [GuildSet -> {{1, 2}, {2}}]
  /\ guild_roles \in [GuildSet -> {InitRoles[i] : i \in 1..Len(InitRoles)}]
  /\ member_roles \in [GuildSet -> InitHeld]
  /\ Consistent
  /\ Recorded

\* ------------------------------------------------------------- event loop
Others(t) == UNCHANGED <<SYNC_INTERVAL_MINUTES, sync_task, nTasks, ready, closed,
                         links_file, lastResponse, environment, cmd, history>>

\* task t is the one the loop runs next
Scheduled(t, pc) ==
  /\ running = 0
  /\ readyQ # <<>>
  /\ Head(readyQ) = t
  /\ task[t].pc = pc

\* task t holds the loop and is at pc
Running(t, pc) == running = t /\ task[t].pc = pc

Set(t, rec, run) ==
  /\ task' = [task EXCEPT ![t] = rec]
  /\ running' = run

\* Task.cancel(), line 337: the task's next step raises CancelledError; a task
\* suspended in an await is scheduled now (its future is cancelled), a task
\* already scheduled keeps its place in the queue.
CancelSkipped(tk, q, t) == [task |-> tk, q |-> q]
Cancel(tk, q, t) ==
  [task |-> [tk EXCEPT ![t].cancelReq = TRUE], q |-> Enqueue(q, t)]

\* sync_task = bot.loop.create_task(...), line 340, under `global sync_task`
KeepsHandle(old, new) == old
NewHandle(old, new) == new

\* asyncio.sleep(SYNC_INTERVAL_MINUTES * 60), line 117
SleepDefault(minutes) == DefaultIntervalMinutes * SecondsPerMinute
SleepSeconds(minutes) == minutes * SecondsPerMinute

\* line 329
RejectMessage == "Sync interval must be at least 1 minute."

\* minutes < 1, line 328
RejectsNegative(minutes) == minutes < 0
IntervalRejected(minutes) == minutes < 1

\* r.name.startswith("FACEIT Level ") and r != role, lines 108
RemovesTarget(name, r, role) == StartsWithRankPrefix(name) /\ r = role
ShouldRemove(name, r, role) == StartsWithRankPrefix(name) /\ r # role

\* role not in member.roles, line 111
AlwaysAdds(role, held) == TRUE
AddsWhenHeld(role, held) == role \in held
NeedsAdd(role, held) == role \notin held

\* lines 88 and 98: the status is not 200, or `not faceit_level`
SkipsNone(r) == FALSE
SkipsAccount(r) == r.kind = "status" \/ (r.kind = "ok" /\ r.level = 0)

\* the step of a task whose cancellation was requested raises CancelledError
\* at the await the task is suspended in (caught at line 118 inside the try)
NeverCancelled(rec) == FALSE
MustCancel(rec) == rec.cancelReq

\* discord.utils.get(guild.roles, name=role_name), line 102: the first role
\* of that name, 0 when there is none
GetRole(roles, name) ==
  LET S == {r \in RoleIds : roles[r] = name}
  IN  IF S = {} THEN 0 ELSE Min(S)

FreeIds(roles) == RoleIds \ Used(roles)

\* the roles of member a whose names start with the rank prefix
RankHeld(g, a) == {r \in member_roles[g][a] : StartsWithRankPrefix(guild_roles[g][r])}

\* --------------------------------------------------- platform write effects
\* What the platform does when it serves the call task record `rec` awaits.
WritePcs == {"create_role", "remove_roles", "add_roles"}

RolesAfter(rec) ==
  LET g == Guilds[rec.gi]
  IN  IF rec.pc = "create_role" /\ FreeIds(guild_roles[g]) # {}
      THEN [guild_roles EXCEPT ![g][Min(FreeIds(guild_roles[g]))] = RoleName(rec.level)]
      ELSE guild_roles

MemberRolesAfter(rec) ==
  LET g == Guilds[rec.gi]
  IN  CASE rec.pc = "remove_roles" ->
             [member_roles EXCEPT ![g][rec.member] = @ \ {Min(rec.rem)}]
        [] rec.pc = "add_roles" ->
             [member_roles EXCEPT ![g][rec.member] = @ \cup {rec.role}]
        [] OTHER -> member_roles

\* ------------------------------------------------------------ setup_hook
\* lines 20-28: the first sync task is created
setup_hook ==
  /\ running = 0
  /\ nTasks = 0
  /\ ~closed
  /\ nTasks' = 1
  /\ sync_task' = 1
  /\ task' = [task EXCEPT ![1] = [NewTask EXCEPT !.interval = SYNC_INTERVAL_MINUTES,
                                                 !.bornReady = ready]]
  /\ readyQ' = Append(readyQ, 1)
  /\ UNCHANGED <<SYNC_INTERVAL_MINUTES, running, ready, closed, links_file,
                 platform, lastResponse, environment, cmd, history>>

\* the gateway READY handling completes: bot._ready is set and the tasks
\* suspended in wait_until_ready are scheduled
BotReady ==
  /\ running = 0
  /\ ~ready
  /\ ~closed
  /\ ready' = TRUE
  /\ LET W == {t \in Tasks : task[t].pc = "wait_ready" /\ Waiting(t)}
     IN  readyQ' = readyQ \o InOrder(W)
  /\ UNCHANGED <<SYNC_INTERVAL_MINUTES, sync_task, task, nTasks, running, closed,
                 links_file, platform, lastResponse, environment, cmd, history>>

\* bot.close()
Close ==
  /\ running = 0
  /\ nTasks > 0
  /\ ~closed
  /\ closed' = TRUE
  /\ UNCHANGED <<SYNC_INTERVAL_MINUTES, sync_task, task, nTasks, running, readyQ,
                 ready, links_file, platform, lastResponse, environment, cmd, history>>

\* ------------------------------------------------------------ /faceitsync
\* lines 327-343.  `landed`: whether a platform write the cancelled task was
\* suspended in took effect on the platform although its caller is cancelled.
faceitsync(minutes, landed) ==
  /\ running = 0
  /\ nTasks > 0
  /\ ~closed
  /\ IF IntervalRejected(minutes)
     THEN /\ ~landed
          /\ lastResponse' = RejectMessage
          /\ UNCHANGED <<SYNC_INTERVAL_MINUTES, sync_task, task, nTasks, running,
                         readyQ, platform>>
     ELSE /\ nTasks < MaxTasks
          /\ SYNC_INTERVAL_MINUTES' = minutes
          /\ LET old == sync_task
                 new == nTasks + 1
                 hit == old # 0 /\ ~Done(old)
                 inflight == hit /\ Waiting(old) /\ task[old].pc \in WritePcs
                 c == IF hit THEN Cancel(task, readyQ, old)
                             ELSE [task |-> task, q |-> readyQ]
             IN  /\ landed => inflight
                 /\ task' = [c.task EXCEPT ![new] =
                               [NewTask EXCEPT !.interval = minutes, !.bornReady = ready]]
                 /\ readyQ' = Append(c.q, new)
                 /\ sync_task' = NewHandle(old, new)
                 /\ nTasks' = new
                 /\ guild_roles' = IF landed THEN RolesAfter(task[old]) ELSE guild_roles
                 /\ member_roles' = IF landed THEN MemberRolesAfter(task[old])
                                              ELSE member_roles
          /\ lastResponse' = "FACEIT level sync interval set. Task restarted."
          /\ UNCHANGED <<running, guild_members>>
  /\ UNCHANGED <<ready, closed, links_file, environment, cmd, history>>

\* ------------------------------------------------------- faceit_sync_task
\* load_links(), lines 41-47: any failure to read the file yields {}
load_links(readable) == IF readable THEN links_file ELSE <<>>

\* links = load_links(), line 65: read at the start of every pass
KeepsLinks(rec, readable) == IF rec.passed THEN rec.links ELSE load_links(readable)
PassLinks(rec, readable) == load_links(readable)

\* `continue`: on to the next (user_id, username) of links.items()
Advance(rec) ==
  [rec EXCEPT !.pc = "iter", !.li = @ + 1, !.member = 0, !.role = 0,
              !.level = 0, !.rem = {}, !.wake = "ok"]

\* an exception other than CancelledError leaves the try block, line 121
Raise(rec) ==
  [rec EXCEPT !.pc = "except", !.member = 0, !.role = 0, !.level = 0,
              !.rem = {}, !.wake = "ok"]

\* CancelledError raised inside the try block: lines 118-120, break
Break(rec) == Finish(rec, "finished")

\* CancelledError raised outside the try block leaves the coroutine
Propagate(rec) ==
  Finish(rec, IF rec.pc = "created" THEN "unstarted" ELSE "cancelled")

\* lines 121-124: log, then await asyncio.sleep(60)
ExceptBreaks(rec) == Finish(rec, "finished")
ExceptLongBackoff(rec) ==
  [rec EXCEPT !.pc = "backoff", !.sleepDur = 10 * BackoffSeconds,
              !.fails = IF @ < 3 THEN @ + 1 ELSE @, !.completed = FALSE,
              !.printed = "error"]
ExceptHandler(rec) ==
  [rec EXCEPT !.pc = "backoff", !.sleepDur = BackoffSeconds,
              !.fails = IF @ < 3 THEN @ + 1 ELSE @, !.completed = FALSE,
              !.printed = "error"]

\* lines 79-84: discord.NotFound and discord.HTTPException of fetch_member
\* are caught, the loop goes on with the next link
LookupRaises(rec) == Raise(rec)
LookupFailed(rec) == Advance([rec EXCEPT !.res[rec.links[rec.li][1]] = "nomember"])

\* first step of the coroutine, line 59
Start(t) ==
  /\ Scheduled(t, "created")
  /\ readyQ' = Tail(readyQ)
  /\ IF MustCancel(task[t])
     THEN Set(t, Propagate(task[t]), 0)
     ELSE IF ready
          THEN Set(t, [task[t] EXCEPT !.pc = "loop"], t)
          ELSE Set(t, [task[t] EXCEPT !.pc = "wait_ready"], 0)
  /\ Others(t)
  /\ UNCHANGED platform

\* resumed from await bot.wait_until_ready(), line 59
ResumeReady(t) ==
  /\ Scheduled(t, "wait_ready")
  /\ readyQ' = Tail(readyQ)
  /\ IF MustCancel(task[t])
     THEN Set(t, Propagate(task[t]), 0)
     ELSE Set(t, [task[t] EXCEPT !.pc = "loop"], t)
  /\ Others(t)
  /\ UNCHANGED platform

\* lines 61-66: the loop test, then the pass starts by reading the links
LoopHead(t) ==
  /\ Running(t, "loop")
  /\ IF closed
     THEN Set(t, Finish(task[t], "finished"), 0)
     ELSE \E readable \in BOOLEAN :
            /\ settled => readable
            /\ Set(t, [task[t] EXCEPT !.pc = "iter", !.links = PassLinks(task[t], readable),
                                      !.gi = 1, !.li = 1, !.sleepDur = 0,
                                      !.passed = TRUE,
                                      !.res = NoRes, !.wfail = 0,
                                      !.loadFailed = ~readable], t)
  /\ Others(t)
  /\ UNCHANGED <<readyQ, platform>>

\* lines 67-72 and 116-117: next guild, next link, member lookup in the cache;
\* after the last guild the cycle is complete and the task sleeps
Iter(t) ==
  /\ Running(t, "iter")
  /\ LET rec == task[t]
     IN  IF rec.gi > Len(Guilds)
         THEN Set(t, [rec EXCEPT !.pc = "sleep", !.fails = 0, !.completed = TRUE,
                                 !.printed = "cycle_complete",
                                 !.sleepDur = SleepSeconds(SYNC_INTERVAL_MINUTES)], 0)
         ELSE IF rec.li > Len(rec.links)
         THEN Set(t, [rec EXCEPT !.gi = @ + 1, !.li = 1], t)
         ELSE LET a == rec.links[rec.li][1]
              IN  \E cached \in BOOLEAN :
                    /\ cached => a \in guild_members[Guilds[rec.gi]]
                    /\ IF cached
                       THEN Set(t, [rec EXCEPT !.pc = "fetch", !.member = a], t)
                       ELSE Set(t, [rec EXCEPT !.pc = "fetch_member"], 0)
  /\ Others(t)
  /\ UNCHANGED <<readyQ, platform>>

\* the platform answers guild.fetch_member, line 77
FetchMemberDone(t, outcome) ==
  /\ running = 0
  /\ Waiting(t)
  /\ task[t].pc = "fetch_member"
  /\ LET a == task[t].links[task[t].li][1]
         isMember == a \in guild_members[Guilds[task[t].gi]]
     IN  /\ outcome = "ok" => isMember
         /\ outcome = "NotFound" => ~isMember
         /\ settled => outcome # "HTTPException"
  /\ task' = [task EXCEPT ![t].wake = outcome]
  /\ readyQ' = Append(readyQ, t)
  /\ UNCHANGED <<running, platform>>
  /\ Others(t)

\* resumed from await guild.fetch_member, lines 77-84
ResumeFetchMember(t) ==
  /\ Scheduled(t, "fetch_member")
  /\ readyQ' = Tail(readyQ)
  /\ LET rec == task[t]
     IN  IF MustCancel(rec)
         THEN Set(t, Break(rec), 0)
         ELSE IF rec.wake = "ok"
         THEN Set(t, [rec EXCEPT !.pc = "fetch", !.member = rec.links[rec.li][1]], t)
         ELSE Set(t, LookupFailed(rec), t)
  /\ Others(t)
  /\ UNCHANGED platform

\* lines 86-100: the rank fetch (blocking, no suspension)
Fetch(t) ==
  /\ Running(t, "fetch")
  /\ LET rec == task[t]
         a == rec.member
     IN  \E r \in FetchResults :
           /\ Answers(rec.links[rec.li][2], r)
           /\ CASE r.kind \in {"raise", "badjson"} ->
                    Set(t, Raise([rec EXCEPT !.res[a] = r.kind]), t)
               [] SkipsAccount(r) ->
                    Set(t, Advance([rec EXCEPT !.res[a] =
                                      IF r.kind = "status" THEN "status" ELSE "norank"]), t)
               [] OTHER ->
                    Set(t, [rec EXCEPT !.pc = "resolve", !.level = r.level,
                                       !.res[a] = LevelStr(r.level)], t)
  /\ Others(t)
  /\ UNCHANGED <<readyQ, platform>>

\* lines 101-105: look the role up by name, create it if there is none
Resolve(t) ==
  /\ Running(t, "resolve")
  /\ LET rec == task[t]
         g == Guilds[rec.gi]
         role == GetRole(guild_roles[g], RoleName(rec.level))
     IN  IF role # 0
         THEN Set(t, [rec EXCEPT !.pc = "remove_loop", !.role = role,
                                 !.rem = member_roles[g][rec.member]], t)
         ELSE Set(t, [rec EXCEPT !.pc = "create_role"], 0)
  /\ Others(t)
  /\ UNCHANGED <<readyQ, platform>>

\* the platform answers guild.create_role, line 105
CreateRoleDone(t, ok) ==
  /\ running = 0
  /\ Waiting(t)
  /\ task[t].pc = "create_role"
  /\ LET g == Guilds[task[t].gi]
     IN  /\ ok => FreeIds(guild_roles[g]) # {}
         /\ settled => ok
         /\ guild_roles' = IF ok THEN RolesAfter(task[t]) ELSE guild_roles
         /\ task' = [task EXCEPT ![t].wake = IF ok THEN "ok" ELSE "HTTPException",
                                 ![t].role = IF ok THEN Min(FreeIds(guild_roles[g])) ELSE 0]
  /\ readyQ' = Append(readyQ, t)
  /\ UNCHANGED <<running, guild_members, member_roles>>
  /\ Others(t)

\* resumed from await guild.create_role, lines 105-107
ResumeCreateRole(t) ==
  /\ Scheduled(t, "create_role")
  /\ readyQ' = Tail(readyQ)
  /\ LET rec == task[t]
         g == Guilds[rec.gi]
     IN  IF MustCancel(rec)
         THEN Set(t, Break(rec), 0)
         ELSE IF rec.wake = "ok"
         THEN Set(t, [rec EXCEPT !.pc = "remove_loop",
                                 !.rem = member_roles[g][rec.member]], t)
         ELSE Set(t, Raise([rec EXCEPT !.wfail = rec.member]), t)
  /\ Others(t)
  /\ UNCHANGED platform

\* lines 107-110: the loop over the member's roles (a list taken at line 107)
RemoveLoop(t) ==
  /\ Running(t, "remove_loop")
  /\ LET rec == task[t]
         g == Guilds[rec.gi]
     IN  IF rec.rem = {}
         THEN Set(t, [rec EXCEPT !.pc = "check_add"], t)
         ELSE LET r == Min(rec.rem)
              IN  IF ShouldRemove(guild_roles[g][r], r, rec.role)
                  THEN Set(t, [rec EXCEPT !.pc = "remove_roles"], 0)
                  ELSE Set(t, [rec EXCEPT !.rem = @ \ {r}], t)
  /\ Others(t)
  /\ UNCHANGED <<readyQ, platform>>

\* the platform answers member.remove_roles, line 110
RemoveRolesDone(t, ok) ==
  /\ running = 0
  /\ Waiting(t)
  /\ task[t].pc = "remove_roles"
  /\ settled => ok
  /\ member_roles' = IF ok THEN MemberRolesAfter(task[t]) ELSE member_roles
  /\ task' = [task EXCEPT ![t].wake = IF ok THEN "ok" ELSE "HTTPException"]
  /\ readyQ' = Append(readyQ, t)
  /\ UNCHANGED <<running, guild_members, guild_roles>>
  /\ Others(t)

\* resumed from await member.remove_roles, line 110
ResumeRemoveRoles(t) ==
  /\ Scheduled(t, "remove_roles")
  /\ readyQ' = Tail(readyQ)
  /\ LET rec == task[t]
     IN  IF MustCancel(rec)
         THEN Set(t, Break(rec), 0)
         ELSE IF rec.wake = "ok"
         THEN Set(t, [rec EXCEPT !.pc = "remove_loop", !.rem = @ \ {Min(rec.rem)}], t)
         ELSE Set(t, Raise([rec EXCEPT !.wfail = rec.member]), t)
  /\ Others(t)
  /\ UNCHANGED platform

\* lines 111-115: add the role unless the member has it
CheckAdd(t) ==
  /\ Running(t, "check_add")
  /\ LET rec == task[t]
         g == Guilds[rec.gi]
     IN  IF NeedsAdd(rec.role, member_roles[g][rec.member])
         THEN Set(t, [rec EXCEPT !.pc = "add_roles"], 0)
         ELSE Set(t, Advance(rec), t)
  /\ Others(t)
  /\ UNCHANGED <<readyQ, platform>>

\* the platform answers member.add_roles, line 113
AddRolesDone(t, ok) ==
  /\ running = 0
  /\ Waiting(t)
  /\ task[t].pc = "add_roles"
  /\ settled => ok
  /\ member_roles' = IF ok THEN MemberRolesAfter(task[t]) ELSE member_roles
  /\ task' = [task EXCEPT ![t].wake = IF ok THEN "ok" ELSE "HTTPException"]
  /\ readyQ' = Append(readyQ, t)
  /\ UNCHANGED <<running, guild_members, guild_roles>>
  /\ Others(t)

\* resumed from await member.add_roles, line 113
ResumeAddRoles(t) ==
  /\ Scheduled(t, "add_roles")
  /\ readyQ' = Tail(readyQ)
  /\ LET rec == task[t]
     IN  IF MustCancel(rec)
         THEN Set(t, Break(rec), 0)
         ELSE IF rec.wake = "ok"
         THEN Set(t, Advance(rec), t)
         ELSE Set(t, Raise([rec EXCEPT !.wfail = rec.member]), t)
  /\ Others(t)
  /\ UNCHANGED platform

\* the timer of asyncio.sleep expires, lines 117 and 124
TimerFires(t) ==
  /\ running = 0
  /\ Waiting(t)
  /\ task[t].pc \in {"sleep", "backoff"}
  /\ readyQ' = Append(readyQ, t)
  /\ UNCHANGED <<task, running, platform>>
  /\ Others(t)

\* resumed from await asyncio.sleep(SYNC_INTERVAL_MINUTES * 60), line 117
ResumeSleep(t) ==
  /\ Scheduled(t, "sleep")
  /\ readyQ' = Tail(readyQ)
  /\ IF MustCancel(task[t])
     THEN Set(t, Break(task[t]), 0)
     ELSE Set(t, [task[t] EXCEPT !.pc = "loop"], t)
  /\ Others(t)
  /\ UNCHANGED platform

\* except Exception, lines 121-124
Except(t) ==
  /\ Running(t, "except")
  /\ Set(t, ExceptHandler(task[t]), 0)
  /\ Others(t)
  /\ UNCHANGED <<readyQ, platform>>

\* resumed from await asyncio.sleep(60), line 124
ResumeBackoff(t) ==
  /\ Scheduled(t, "backoff")
  /\ readyQ' = Tail(readyQ)
  /\ IF MustCancel(task[t])
     THEN Set(t, Propagate(task[t]), 0)
     ELSE Set(t, [task[t] EXCEPT !.pc = "loop"], t)
  /\ Others(t)
  /\ UNCHANGED platform

\* ---------------------------------------------------------- slash commands
\* discord.py runs every command in a coroutine of its own on the bot's loop.
\* Task.cancelled(): the task is done and it ended by CancelledError
TaskCancelled(t) == Done(t) /\ task[t].result \in {"cancelled", "unstarted"}

\* /syncstatus, lines 365-372: the status it reports in the current state
syncstatus ==
  IF sync_task = 0 THEN "Not running"
  ELSE IF Done(sync_task) THEN "Stopped (task completed or failed)"
  ELSE IF TaskCancelled(sync_task) THEN "Cancelled"
  ELSE "Running"

\* A command runs from its invocation to its first await that suspends; the
\* final await of send_message ends it.  An exception that leaves the handler
\* ends the command.
CmdOthers == UNCHANGED <<SYNC_INTERVAL_MINUTES, sync_task, task, nTasks, ready,
                         closed, lastResponse, environment>>

CmdScheduled(c) ==
  /\ running = 0
  /\ readyQ # <<>>
  /\ Head(readyQ) = c

CmdWaiting(c) == cmd[c].pc \in WritePcs /\ c \notin Range(readyQ)

\* a command can be invoked: the bot is connected and the loop is free
Invocable == running = 0 /\ ready /\ ~closed

\* one command at a time is between its first await and its end
FreeFrame(c) == cmd[c].pc = "idle"

\* user_id in links, links[user_id]
HasLink(links, a) == \E i \in 1..Len(links) : links[i][1] = a
UsernameOf(links, a) == links[CHOOSE i \in 1..Len(links) : links[i][1] = a][2]

\* links[str(discord_user.id)] = username, line 212: a dict keeps the place
\* of a key it has, a new key goes to the end
SetLink(links, a, username) ==
  IF HasLink(links, a)
  THEN [i \in 1..Len(links) |-> IF links[i][1] = a THEN <<a, username>> ELSE links[i]]
  ELSE Append(links, <<a, username>>)

\* del links[user_id], line 520
RECURSIVE DelLink(_, _)
DelLink(links, a) ==
  IF links = <<>> THEN <<>>
  ELSE IF Head(links)[1] = a THEN DelLink(Tail(links), a)
  ELSE <<Head(links)>> \o DelLink(Tail(links), a)

\* lines 253-257 and 290-294: the loop over the member's roles up to the next
\* await: remove_roles of the next role to remove, or else add_roles, which
\* the commands call whether the member has the role or not
CmdApply(rec) ==
  LET g == Guilds[rec.gi]
      R == {r \in rec.rem : ShouldRemove(guild_roles[g][r], r, rec.role)}
  IN  IF R = {}
      THEN [rec EXCEPT !.pc = "add_roles", !.rem = {}]
      ELSE [rec EXCEPT !.pc = "remove_roles", !.rem = {r \in rec.rem : r >= Min(R)}]

\* lines 248-253 and 285-290: look the role up by name; create it if there is
\* none, else go on to the member's roles
CmdResolve(rec, a, level) ==
  LET g == Guilds[rec.gi]
      role == GetRole(guild_roles[g], RoleName(level))
      r1 == [rec EXCEPT !.member = a, !.level = level, !.role = role]
  IN  IF role = 0
      THEN [r1 EXCEPT !.pc = "create_role"]
      ELSE CmdApply([r1 EXCEPT !.rem = member_roles[g][a]])

\* /linkfaceit, lines 205-214: load, set, save without a suspension between
linkfaceit(user, username, permitted, readable) ==
  /\ Invocable
  /\ user \in guild_members[Guilds[1]]
  /\ settled => readable
  /\ links_file' = IF permitted THEN SetLink(load_links(readable), user, username)
                                ELSE links_file
  /\ last_link' = IF permitted THEN [last_link EXCEPT ![user] = username] ELSE last_link
  /\ unlinked' = IF permitted THEN unlinked \ {user} ELSE unlinked
  /\ UNCHANGED <<running, readyQ, platform, cmd>>
  /\ CmdOthers

\* lines 524-531 of /unlinkfaceit: the loop over the user's roles up to the
\* next await of remove_roles; the command ends when no role is left
UnlinkApply(rec) ==
  LET g == Guilds[rec.gi]
      R == {r \in rec.rem : StartsWithRankPrefix(guild_roles[g][r])}
  IN  IF R = {}
      THEN NoCmd
      ELSE [rec EXCEPT !.pc = "remove_roles", !.rem = {r \in rec.rem : r >= Min(R)}]

\* /unlinkfaceit, lines 506-537, up to its first await
unlinkfaceit(c, user, permitted, readable) ==
  /\ Invocable
  /\ FreeFrame(c)
  /\ user \in guild_members[Guilds[1]]
  /\ settled => readable
  /\ LET links == load_links(readable)
         next == UnlinkApply([NoCmd EXCEPT !.kind = "unlinkfaceit", !.member = user,
                                 !.rem = member_roles[Guilds[1]][user]])
     IN  IF permitted /\ HasLink(links, user)
         THEN /\ links_file' = DelLink(links, user)
              /\ cmd' = [cmd EXCEPT ![c] = next]
              /\ unlinked' = IF next = NoCmd THEN unlinked \cup {user} ELSE unlinked
         ELSE UNCHANGED <<links_file, cmd, unlinked>>
  /\ last_link' = IF permitted THEN [last_link EXCEPT ![user] = "none"] ELSE last_link
  /\ UNCHANGED <<running, readyQ, platform>>
  /\ CmdOthers

\* /faceitupdate, lines 218-258, up to its first await
faceitupdate(c, user, permitted, readable) ==
  /\ Invocable
  /\ FreeFrame(c)
  /\ user \in guild_members[Guilds[1]]
  /\ settled => readable
  /\ LET links == load_links(readable)
     IN  IF permitted /\ HasLink(links, user)
         THEN \E r \in FetchResults :
                /\ Answers(UsernameOf(links, user), r)
                /\ IF r.kind \in {"raise", "badjson"} \/ SkipsAccount(r)
                   THEN UNCHANGED cmd
                   ELSE cmd' = [cmd EXCEPT ![c] =
                                  CmdResolve([NoCmd EXCEPT !.kind = "faceitupdate"],
                                             user, r.level)]
         ELSE UNCHANGED cmd
  /\ UNCHANGED <<running, readyQ, links_file, platform, history>>
  /\ CmdOthers

\* /faceitupdateall, lines 262-269: the permission check and the load
faceitupdateall(c, permitted, readable) ==
  /\ Invocable
  /\ FreeFrame(c)
  /\ settled => readable
  /\ IF permitted
     THEN /\ cmd' = [cmd EXCEPT ![c] = [NoCmd EXCEPT !.kind = "faceitupdateall",
                                               !.pc = "iter",
                                               !.links = load_links(readable)]]
          /\ running' = c
     ELSE UNCHANGED <<cmd, running>>
  /\ UNCHANGED <<readyQ, links_file, platform, history>>
  /\ CmdOthers

\* /faceitupdateall, lines 270-296: one turn of the loop over links.items(),
\* up to the next await; after the last link the answer is sent
UpdateAllIter(c) ==
  /\ running = c
  /\ cmd[c].pc = "iter"
  /\ LET rec == cmd[c]
         next == [rec EXCEPT !.li = @ + 1]
     IN  IF rec.li > Len(rec.links)
         THEN cmd' = [cmd EXCEPT ![c] = NoCmd] /\ running' = 0
         ELSE LET a == rec.links[rec.li][1]
              IN  \E cached \in BOOLEAN, r \in FetchResults :
                    /\ cached => a \in guild_members[Guilds[rec.gi]]
                    /\ Answers(rec.links[rec.li][2], r)
                    /\ CASE ~cached \/ (r.kind \notin {"raise", "badjson"} /\ SkipsAccount(r)) ->
                              cmd' = [cmd EXCEPT ![c] = next] /\ running' = c
                         [] r.kind \in {"raise", "badjson"} ->
                              cmd' = [cmd EXCEPT ![c] = NoCmd] /\ running' = 0
                         [] OTHER ->
                              /\ cmd' = [cmd EXCEPT ![c] = CmdResolve(rec, a, r.level)]
                              /\ running' = 0
  /\ UNCHANGED <<readyQ, links_file, platform, history>>
  /\ CmdOthers

\* the platform answers the call command c awaits (create_role, remove_roles,
\* add_roles)
CmdIoDone(c, ok) ==
  /\ running = 0
  /\ CmdWaiting(c)
  /\ settled => ok
  /\ LET rec == cmd[c]
         g == Guilds[rec.gi]
     IN  /\ (ok /\ rec.pc = "create_role") => FreeIds(guild_roles[g]) # {}
         /\ guild_roles' = IF ok THEN RolesAfter(rec) ELSE guild_roles
         /\ member_roles' = IF ok THEN MemberRolesAfter(rec) ELSE member_roles
         /\ cmd' = [cmd EXCEPT ![c].wake = IF ok THEN "ok" ELSE "HTTPException",
                               ![c].role = IF ok /\ rec.pc = "create_role"
                                           THEN Min(FreeIds(guild_roles[g])) ELSE @]
  /\ readyQ' = Append(readyQ, c)
  /\ UNCHANGED <<running, guild_members, links_file, history>>
  /\ CmdOthers

\* command c is resumed from its await and runs to its next await or its end
CmdResume(c) ==
  /\ CmdScheduled(c)
  /\ readyQ' = Tail(readyQ)
  /\ LET rec0 == cmd[c]
         rec == [rec0 EXCEPT !.wake = "ok"]
         g == Guilds[rec.gi]
         failed == rec0.failed \/ rec0.wake # "ok"
         next == UnlinkApply([rec EXCEPT !.rem = @ \ {Min(@)}, !.failed = failed])
         clean == /\ rec.kind = "unlinkfaceit"
                  /\ next = NoCmd
                  /\ ~failed
                  /\ last_link[rec.member] = "none"
     IN  /\ unlinked' = IF clean THEN unlinked \cup {rec.member} ELSE unlinked
         /\ CASE rec.kind = "unlinkfaceit" ->
                   \* lines 527-531: HTTPException is caught, the loop goes on
                   /\ cmd' = [cmd EXCEPT ![c] = next]
                   /\ running' = 0
              [] rec.kind # "unlinkfaceit" /\ rec0.wake # "ok" ->
                   cmd' = [cmd EXCEPT ![c] = NoCmd] /\ running' = 0
              [] rec.kind # "unlinkfaceit" /\ rec0.wake = "ok" /\ rec.pc = "create_role" ->
                   /\ cmd' = [cmd EXCEPT ![c] = CmdApply([rec EXCEPT !.rem = member_roles[g][rec.member]])]
                   /\ running' = 0
              [] rec.kind # "unlinkfaceit" /\ rec0.wake = "ok" /\ rec.pc = "remove_roles" ->
                   /\ cmd' = [cmd EXCEPT ![c] = CmdApply([rec EXCEPT !.rem = @ \ {Min(@)}])]
                   /\ running' = 0
              [] OTHER ->
                   \* add_roles is done: /faceitupdate answers, /faceitupdateall
                   \* goes on to the next link
                   IF rec.kind = "faceitupdateall"
                   THEN /\ cmd' = [cmd EXCEPT ![c] = [rec EXCEPT !.pc = "iter", !.li = @ + 1,
                                                                !.member = 0, !.role = 0,
                                                                !.level = 0, !.rem = {}]]
                        /\ running' = c
                   ELSE cmd' = [cmd EXCEPT ![c] = NoCmd] /\ running' = 0
  /\ UNCHANGED <<links_file, platform, last_link>>
  /\ CmdOthers

\* the environment settles: from now on the links file can be read, the
\* platform serves every call and the provider's answers are fixed
Settle(p) ==
  /\ running = 0
  /\ ~settled
  /\ settled' = TRUE
  /\ provider' = p
  /\ UNCHANGED <<SYNC_INTERVAL_MINUTES, sync_task, task, nTasks, running, readyQ,
                 ready, closed, links_file, platform, lastResponse, cmd, history>>

\* ---------------------------------------------------------- specification
TaskStep(t) ==
  \/ Start(t) \/ ResumeReady(t) \/ LoopHead(t) \/ Iter(t)
  \/ ResumeFetchMember(t) \/ Fetch(t) \/ Resolve(t) \/ ResumeCreateRole(t)
  \/ RemoveLoop(t) \/ ResumeRemoveRoles(t) \/ CheckAdd(t) \/ ResumeAddRoles(t)
  \/ ResumeSleep(t) \/ Except(t) \/ ResumeBackoff(t)

IoStep(t) ==
  \/ \E outcome \in {"ok", "NotFound", "HTTPException"} : FetchMemberDone(t, outcome)
  \/ \E ok \in BOOLEAN : CreateRoleDone(t, ok)
  \/ \E ok \in BOOLEAN : RemoveRolesDone(t, ok)
  \/ \E ok \in BOOLEAN : AddRolesDone(t, ok)
  \/ TimerFires(t)

Next ==
  \/ setup_hook
  \/ BotReady
  \/ Close
  \/ \E minutes \in MinutesInputs, landed \in BOOLEAN : faceitsync(minutes, landed)
  \/ \E t \in Tasks : TaskStep(t)
  \/ \E t \in Tasks : IoStep(t)

Spec == Init /\ [][Next]_vars

\* one generation of the sync task: no /faceitsync, no shutdown
PassNext ==
  \/ setup_hook
  \/ BotReady
  \/ \E t \in Tasks : TaskStep(t)
  \/ \E t \in Tasks : IoStep(t)

PassSpec == PassInit /\ [][PassNext]_vars

\* The sync task under fair scheduling: the event loop runs every scheduled
\* task, timers expire and the platform answers every call.  The /faceitsync
\* calls of this specification are the accepted ones, with one value.
LiveNext ==
  \/ setup_hook
  \/ BotReady
  \/ Close
  \/ \E landed \in BOOLEAN : faceitsync(1, landed)
  \/ \E t \in Tasks : TaskStep(t)
  \/ \E t \in Tasks : IoStep(t)

LiveSpec ==
  /\ Init
  /\ [][LiveNext]_vars
  /\ \A t \in Tasks : WF_vars(TaskStep(t)) /\ WF_vars(IoStep(t))

\* The sync task next to the commands that apply ranks: one generation, no
\* /faceitsync, no shutdown; one linked member who holds the level 1 role, no
\* role for another level yet.
UpdateInit ==
  /\ Boot
  /\ Unsettled
  /\ links_file = <<<<1, "alice">>>>
  /\ guild_members = [g \in GuildSet |-> {1}]
  /\ guild_roles = [g \in GuildSet |->
                      [r \in RoleIds |-> CASE r = 1 -> <<"", "Moderator">>
                                           [] r = 2 -> RoleName(1)
                                           [] OTHER -> NoName]]
  /\ member_roles = [g \in GuildSet |-> [a \in Accounts |-> IF a = 1 THEN {1, 2} ELSE {}]]
  /\ Recorded

UpdateNext ==
  \/ setup_hook
  \/ BotReady
  \/ \E t \in Tasks : TaskStep(t)
  \/ \E t \in Tasks : IoStep(t)
  \/ \E c \in Cmds, user \in Accounts, permitted \in BOOLEAN, readable \in BOOLEAN :
       faceitupdate(c, user, permitted, readable)
  \/ \E c \in Cmds, permitted \in BOOLEAN, readable \in BOOLEAN :
       faceitupdateall(c, permitted, readable)
  \/ \E c \in Cmds : UpdateAllIter(c)
  \/ \E c \in Cmds, ok \in BOOLEAN : CmdIoDone(c, ok)
  \/ \E c \in Cmds : CmdResume(c)

UpdateSpec == UpdateInit /\ [][UpdateNext]_vars

\* The sync task next to the commands that change the links file.
LinkInit ==
  /\ Boot
  /\ Unsettled
  /\ links_file = <<<<1, "alice">>>>
  /\ guild_members = [g \in GuildSet |-> {1}]
  /\ guild_roles = [g \in GuildSet |-> InitRoles[1]]
  /\ member_roles = [g \in GuildSet |-> [a \in Accounts |-> IF a = 1 THEN {1, 2} ELSE {}]]
  /\ Recorded

LinkNext ==
  \/ setup_hook
  \/ BotReady
  \/ \E t \in Tasks : TaskStep(t)
  \/ \E t \in Tasks : IoStep(t)
  \/ \E user \in Accounts, username \in Usernames, permitted \in BOOLEAN,
        readable \in BOOLEAN : linkfaceit(user, username, permitted, readable)
  \/ \E c \in Cmds, user \in Accounts, permitted \in BOOLEAN, readable \in BOOLEAN :
       unlinkfaceit(c, user, permitted, readable)
  \/ \E c \in Cmds, ok \in BOOLEAN : CmdIoDone(c, ok)
  \/ \E c \in Cmds : CmdResume(c)

LinkSpec == LinkInit /\ [][LinkNext]_vars

\* Passes in an environment that does not change: the links file is read,
\* every platform call succeeds and the provider answers every fetch for a
\* username the same way (a failure included).
StableInit ==
  /\ Boot
  /\ settled = TRUE
  /\ provider \in [Usernames -> FetchResults]
  /\ links_file \in {<<<<1, "alice">>, <<2, "bob">>>>, <<<<2, "bob">>, <<1, "alice">>>>}
  /\ guild_members \in [GuildSet -> {{1, 2}, {2}}]
  /\ guild_roles \in [GuildSet -> {InitRoles[i] : i \in 1..Len(InitRoles)}]
  /\ member_roles \in [GuildSet -> InitHeld]
  /\ Consistent
  /\ Recorded

StableSpec == StableInit /\ [][PassNext]_vars

\* what a settled provider may answer: any working answer for a username
\* some account is linked to (the other usernames are not asked about)
SettledProviders ==
  {p \in [Usernames -> SettledAnswers] :
     \A u \in Usernames :
       (\A i \in 1..Len(links_file) : links_file[i][2] # u)
         => p[u] = [kind |-> "status", level |-> 0]}

\* a linked member holds no role with the rank prefix: a removal is done and
\* the addition is not (it failed, was cut short, or is still to come)
PartlyApplied ==
  \E i \in 1..Len(links_file) :
    /\ links_file[i][1] \in guild_members[Guilds[1]]
    /\ RankHeld(Guilds[1], links_file[i][1]) = {}

\* The bot from its start, with /faceitsync calls, in an environment that
\* settles at a time when a member is partly applied.  The bot starts and
\* connects, the event loop runs every scheduled task, timers expire and the
\* platform answers every call.
ConvNext ==
  \/ setup_hook
  \/ BotReady
  \/ \E landed \in BOOLEAN : faceitsync(1, landed)
  \/ \E p \in SettledProviders : PartlyApplied /\ Settle(p)
  \/ \E t \in Tasks : TaskStep(t)
  \/ \E t \in Tasks : IoStep(t)

ConvSpec ==
  /\ Init
  /\ [][ConvNext]_vars
  /\ WF_vars(setup_hook)
  /\ WF_vars(BotReady)
  /\ \A t \in Tasks : WF_vars(TaskStep(t)) /\ WF_vars(IoStep(t))

\* ------------------------------------------------------------- properties
\* C1: at most one sync task is between the start and the end of a
\* reconciliation pass, in every reachable state, however /faceitsync calls
\* interleave with the steps of the sync tasks.
C1_OneGenerationInPass == Cardinality({t \in Tasks : InPass(t)}) <= 1

\* /faceitsync was accepted while the previous generation was inside a pass
C1_Witness ==
  \E t \in Tasks :
    /\ t < MaxTasks
    /\ InPass(t)
    /\ task[t].cancelReq
    /\ task[t + 1].pc = "created"

\* C2: when every requested cancellation has been delivered (and the bot is
\* not closed), exactly one sync task is not done: the one the last
\* /faceitsync call created, and sync_task refers to it.
C2_OneLiveTask ==
  (nTasks > 0 /\ ~closed /\ \A t \in Tasks : ~task[t].cancelReq)
    => /\ {t \in Tasks : Live(t)} = {sync_task}
       /\ sync_task = nTasks

\* two accepted calls, the second made before the task of the first had
\* taken its first step, and everything has settled
C2_Witness ==
  /\ nTasks = 3
  /\ ~closed
  /\ \A t \in Tasks : ~task[t].cancelReq
  /\ task[1].pc = "done"
  /\ task[2].pc = "done" /\ task[2].result = "unstarted"
  /\ Live(3)

\* C3: a generation created on a ready bot never waits before its first
\* pass, every inter-cycle sleep lasts the minutes given by the call that
\* created the generation, and a sleep of a generation that is not cancelled
\* lasts the stored interval.
C3_NewIntervalAtOnce ==
  \A t \in Tasks :
    /\ (task[t].bornReady /\ task[t].pc \notin {"created", "loop", "done"})
          => task[t].passed
    /\ task[t].pc \in {"sleep", "backoff"} => task[t].passed
    /\ task[t].pc = "sleep"
          => /\ task[t].sleepDur = task[t].interval * SecondsPerMinute
             /\ ~task[t].cancelReq
                  => task[t].sleepDur = SYNC_INTERVAL_MINUTES * SecondsPerMinute

\* the generation of a second accepted call sleeps after a completed pass
C3_Witness ==
  /\ nTasks = 3
  /\ task[3].pc = "sleep"
  /\ task[3].bornReady
  /\ task[3].interval = 5
  /\ task[3].sleepDur = 300
  /\ task[2].pc = "done" /\ task[2].result = "finished"

\* C4: a /faceitsync call with minutes < 1 changes neither the stored
\* interval, nor the sync_task handle, nor any sync task (its pc, its pending
\* cancellation, its place in the ready queue), nor the platform.
C4_RejectChangesNothing ==
  [][\A minutes \in MinutesInputs, landed \in BOOLEAN :
        (minutes < 1 /\ faceitsync(minutes, landed))
          => UNCHANGED <<SYNC_INTERVAL_MINUTES, sync_task, task, nTasks, running,
                         readyQ, platform>>]_vars

\* a call was rejected while the running generation was inside a pass
C4_Witness ==
  /\ lastResponse = RejectMessage
  /\ sync_task # 0
  /\ task[sync_task].pc = "remove_roles"
  /\ ~task[sync_task].cancelReq

\* task t met a failure in its last pass, has not started the next pass yet,
\* is not cancelled, and the bot is not closed
AwaitsRetry(t) ==
  /\ \/ task[t].pc \in {"except", "backoff"}
     \/ task[t].pc = "loop" /\ task[t].fails > 0
  /\ ~task[t].cancelReq
  /\ ~closed

\* C5: a failure inside a pass does not end the sync loop.  The task that
\* met the failure goes on to the backoff wait with sync_task and the number
\* of tasks unchanged, and under fair scheduling no task stays for ever
\* between a failed pass and its next pass: it starts another pass unless it
\* is cancelled or the bot is closed, however many passes failed before.
C5_FailureNeverFatal ==
  /\ [][\A t \in Tasks :
          task[t].pc = "except"
            => /\ task'[t].pc = "backoff"
               /\ sync_task' = sync_task
               /\ nTasks' = nTasks]_vars
  /\ []<>(\A t \in Tasks : ~AwaitsRetry(t))

\* a second pass in a row has failed and the same, only task goes on
C5_Witness ==
  /\ nTasks = 1
  /\ sync_task = 1
  /\ task[1].pc = "except"
  /\ task[1].fails = 1

\* C6 as stated: for the stored interval, whatever accepted call set it, the
\* backoff wait is strictly shorter than the inter-cycle wait.
C6_BackoffStrictlyShorter ==
  BackoffSeconds < SleepSeconds(SYNC_INTERVAL_MINUTES)

\* C6 as amended: a backoff wait is never longer than the inter-cycle wait
\* of the stored interval, and strictly shorter unless the interval is 1.
C6_BackoffNotLonger ==
  \A t \in Tasks :
    task[t].pc = "backoff"
      => /\ task[t].sleepDur <= SleepSeconds(SYNC_INTERVAL_MINUTES)
         /\ SYNC_INTERVAL_MINUTES # 1
              => task[t].sleepDur < SleepSeconds(SYNC_INTERVAL_MINUTES)

\* a backoff wait under interval 1: as long as the inter-cycle wait
C6_Witness ==
  \E t \in Tasks :
    /\ task[t].pc = "backoff"
    /\ SYNC_INTERVAL_MINUTES = 1
    /\ task[t].sleepDur = SleepSeconds(SYNC_INTERVAL_MINUTES)

\* C7 as stated: a pass whose read of the links failed ends as a failed pass,
\* in the backoff wait, never in the inter-cycle sleep of a completed pass.
C7_StoreFailureBacksOff ==
  \A t \in Tasks :
    (task[t].loadFailed /\ task[t].pc \in {"sleep", "backoff"})
      => /\ task[t].pc = "backoff"
         /\ task[t].sleepDur = BackoffSeconds

\* --------------------------------------------- properties of a single pass
PassEnded(t) == task[t].pc \in {"sleep", "except", "backoff"}
Linked(t) == {task[t].links[i][1] : i \in 1..Len(task[t].links)}
IsLevel(x) == \E k \in Levels : x = LevelStr(k)
OtherHeld(mr, g, a) == {r \in mr[g][a] : ~StartsWithRankPrefix(guild_roles[g][r])}
HoldsExactly(g, a, levelStr) ==
  \E r \in RoleIds :
    /\ guild_roles[g][r] = <<RankPrefix, levelStr>>
    /\ RankHeld(g, a) = {r}

\* C8 as stated: when the rank fetch of a linked member X ends in a
\* non-success status or raises (transport failure, timeout), every other
\* linked member Y is still fetched in that pass and, if it has a rank, ends
\* the pass with exactly its target role.  (Passes in which a platform write
\* raised or Y's member lookup failed are left out: they are not the claim's
\* case.)
C8_FetchFailureIsolated ==
  \A t \in Tasks : \A x \in Accounts, y \in Accounts :
    ( /\ PassEnded(t)
      /\ x # y
      /\ {x, y} \subseteq Linked(t)
      /\ {x, y} \subseteq guild_members[Guilds[1]]
      /\ task[t].res[x] \in {"status", "raise"}
      /\ task[t].wfail = 0
      /\ task[t].res[y] # "nomember" )
    => /\ task[t].res[y] # "none"
       /\ IsLevel(task[t].res[y]) => HoldsExactly(Guilds[1], y, task[t].res[y])

\* C9 as stated: when a platform write for one account raises, every linked
\* account has still been reached (looked up, fetched) when the pass ends.
C9_WriteFailureNotFatal ==
  \A t \in Tasks :
    (PassEnded(t) /\ task[t].wfail # 0)
      => \A y \in Linked(t) : task[t].res[y] # "none"

\* C10: after a pass that ran to completion (no call raised), a member whose
\* fetched level is k holds the role named for k and no other role whose
\* name starts with the rank prefix; no step of a pass changes which roles
\* without the prefix a member holds.
C10_Converges ==
  /\ [](\A t \in Tasks : \A a \in Accounts :
          (task[t].pc = "sleep" /\ IsLevel(task[t].res[a]))
            => HoldsExactly(Guilds[1], a, task[t].res[a]))
  /\ [][\A g \in GuildSet : \A a \in Accounts :
          OtherHeld(member_roles', g, a) = OtherHeld(member_roles, g, a)]_vars

\* a member who held another role and the level 1 role was fetched at level
\* 2: the level 2 role was created, level 1 removed, level 2 added
C10_Witness ==
  /\ task[1].pc = "sleep"
  /\ task[1].res[1] = "2"
  /\ guild_roles[Guilds[1]][3] = <<RankPrefix, "VIP">>
  /\ guild_roles[Guilds[1]][4] = RoleName(2)
  /\ member_roles[Guilds[1]][1] = {1, 4}

\* C11: a pass that follows a pass which ran to completion, with the links,
\* the ranks, the membership and the roles unchanged in between, issues no
\* platform write: it never awaits create_role, remove_roles or add_roles,
\* and no step of it changes the platform.
C11_SecondPassWritesNothing ==
  /\ [](\A t \in Tasks : (task[t].completed /\ InPass(t)) => task[t].pc \notin WritePcs)
  /\ [][\A t \in Tasks : (task[t].completed /\ InPass(t)) => platform' = platform]_vars

\* the first pass created the level 2 role, removed level 1 and added level
\* 2; the second pass finds the member with the role
C11_Witness ==
  /\ task[1].completed
  /\ task[1].pc = "check_add"
  /\ task[1].member = 1
  /\ guild_roles[Guilds[1]][4] = RoleName(2)
  /\ member_roles[Guilds[1]][1] = {1, 4}

\* pcs from the role lookup to the last role write of one account
ApplyPcs == {"resolve", "create_role", "remove_loop", "remove_roles", "check_add",
             "add_roles"}

\* C12: an account whose rank fetch ends in a status other than 200 or in no
\* level is left as it is: the fetch step goes on to the next link without
\* changing the platform, and the pass is never at the role lookup, a role
\* creation, a removal or an addition for an account without a fetched level.
C12_NoRankNoChange ==
  /\ [](\A t \in Tasks :
          task[t].pc \in ApplyPcs => IsLevel(task[t].res[task[t].member]))
  /\ [][\A t \in Tasks : \A a \in Accounts :
          ( /\ task[t].pc = "fetch"
            /\ task[t].member = a
            /\ task'[t].res[a] \in {"status", "norank"} )
          => /\ platform' = platform
             /\ task'[t].pc = "iter"
             /\ task'[t].li = task[t].li + 1]_vars

\* a member with two rank-prefixed roles, no level fetched: the pass is over
\* and the member holds both
C12_Witness ==
  /\ task[1].pc = "sleep"
  /\ task[1].res[1] = "norank"
  /\ task[1].res[2] = "status"
  /\ member_roles[Guilds[1]][1] = {2, 3}
  /\ member_roles[Guilds[1]][2] = {1, 2}

\* C13 as stated: the sync task and a command are never both between the
\* rank fetch and the last role write for the same account of the same guild.
C13_NoOverlap ==
  \A t \in Tasks : \A c \in Cmds :
    ~ ( /\ task[t].pc \in ApplyPcs
        /\ cmd[c].pc \in WritePcs
        /\ cmd[c].kind \in {"faceitupdate", "faceitupdateall"}
        /\ cmd[c].member = task[t].member
        /\ cmd[c].gi = task[t].gi )

\* C14 as stated: a guild never has two roles with the same rank name.
C14_OneRolePerRankName ==
  \A g \in GuildSet : \A r1 \in RoleIds, r2 \in RoleIds :
    ( /\ StartsWithRankPrefix(guild_roles[g][r1])
      /\ guild_roles[g][r1] = guild_roles[g][r2] )
    => r1 = r2

\* C15: a generation whose cancellation /faceitsync has requested starts no
\* new work.  It is scheduled and does not hold the loop; the platform
\* answers none of its calls any more; its next step ends it, whatever await
\* it is suspended in (a call of the pass, the inter-cycle sleep, the backoff
\* wait), and that step changes nothing on the platform.
C15_CancelledStartsNothing ==
  /\ [](\A t \in Tasks :
          task[t].cancelReq
            => /\ Live(t)
               /\ running # t
               /\ t \in Range(readyQ)
               /\ ~ENABLED IoStep(t))
  /\ [][\A t \in Tasks :
          (task[t].cancelReq /\ task'[t] # task[t])
            => /\ task'[t].pc = "done"
               /\ platform' = platform]_vars

\* the first generation was cancelled in its inter-cycle sleep
C15_Witness ==
  /\ task[1].cancelReq
  /\ task[1].pc = "sleep"
  /\ task[1].completed
  /\ task[2].pc = "created"

C17_DegradedSignalled ==
  \A t \in Tasks :
    task[t].fails >= 3 => task[t].printed \notin {"", "cycle_complete", "error"}

\* C18 as stated: a member who holds at most one role with the rank prefix at
\* the start holds at most one in every reachable state.
C18_AtMostOneRankTag ==
  \A g \in GuildSet : \A a \in Accounts : Cardinality(RankHeld(g, a)) <= 1

\* C19 as stated: a sync task never ends while it is inside one account's
\* apply step (between the role lookup and the addition of the target role);
\* a cancellation ends it at the inter-cycle wait or between two accounts.
C19_CancelOnlyBetweenUnits ==
  [][\A t \in Tasks : task'[t].pc = "done" => task[t].pc \notin ApplyPcs]_vars

\* every linked member whose username has a level at the provider holds the
\* role of that level and no other role with the rank prefix
Converged ==
  \A i \in 1..Len(links_file) :
    LET a == links_file[i][1]
        answer == provider[links_file[i][2]]
    IN  (a \in guild_members[Guilds[1]] /\ answer.kind = "ok" /\ answer.level > 0)
          => HoldsExactly(Guilds[1], a, LevelStr(answer.level))

\* C20: once the environment has settled (the links, the ranks and the
\* membership stay as they are, the file is read and the platform calls
\* succeed), and with finitely many /faceitsync calls, from some time on every
\* linked member with a level holds exactly the role of its level, whatever
\* an earlier failed or cancelled pass left behind.
C20_EventuallyConsistent == <>[](settled => Converged)

\* the addition failed after the removal, then the environment settled: the
\* member holds no rank role, the provider reports level 2, the task is in
\* its backoff wait
C20_Witness ==
  /\ settled
  /\ provider["alice"] = [kind |-> "ok", level |-> 2]
  /\ task[1].pc = "backoff"
  /\ task[1].wfail = 1
  /\ RankHeld(Guilds[1], 1) = {}

\* C21: when guild.fetch_member answers NotFound or fails with an HTTP error,
\* the pass goes on with the next link: the step changes nothing on the
\* platform and does not enter the except clause; the pass fetches ranks and
\* writes roles only for accounts that are members of the guild and whose
\* lookup succeeded; a linked account that is no member is looked up and left
\* alone in a pass that runs to completion.
C21_NonMemberSkipped ==
  /\ [][\A t \in Tasks :
          ( /\ task[t].pc = "fetch_member"
            /\ task[t].wake \in {"NotFound", "HTTPException"}
            /\ ~task[t].cancelReq
            /\ task'[t] # task[t] )
          => /\ task'[t].pc = "iter"
             /\ task'[t].li = task[t].li + 1
             /\ platform' = platform]_vars
  /\ [](\A t \in Tasks :
          /\ task[t].pc \in ({"fetch"} \cup ApplyPcs)
               => /\ task[t].member \in guild_members[Guilds[task[t].gi]]
                  /\ task[t].res[task[t].member] # "nomember"
          /\ task[t].pc = "sleep"
               => \A a \in Linked(t) \ guild_members[Guilds[1]] :
                    /\ task[t].res[a] = "nomember"
                    /\ member_roles[Guilds[1]][a] = {})

\* the first linked account is no member of the guild; the pass went on to
\* the second and gave it the level 2 role
C21_Witness ==
  /\ task[1].pc = "sleep"
  /\ task[1].links = <<<<1, "alice">>, <<2, "bob">>>>
  /\ guild_members[Guilds[1]] = {2}
  /\ task[1].res[1] = "nomember"
  /\ task[1].res[2] = "2"

\* C22: an account whose /unlinkfaceit has ended with every role removal
\* served, and that has not been linked again, holds no role whose name
\* starts with the rank prefix, whatever the sync task does afterwards.
C22_UnlinkedHoldsNoRank ==
  \A a \in unlinked : RankHeld(Guilds[1], a) = {}

\* C23: once setup_hook has started the sync task and while the bot is not
\* closed, sync_task refers to a task that is not done and /syncstatus reports
\* Running, whatever /faceitsync calls and failed passes there were; in no
\* state /syncstatus reports Cancelled.
C23_StatusRunning ==
  /\ (nTasks > 0 /\ ~closed)
       => /\ sync_task \in Tasks
          /\ Live(sync_task)
          /\ syncstatus = "Running"
  /\ syncstatus # "Cancelled"

\* the first task ended by CancelledError, its successor had a failed pass
\* and the last /faceitsync call was rejected: the status is Running
C23_Witness ==
  /\ ~closed
  /\ sync_task = 2
  /\ TaskCancelled(1)
  /\ task[2].fails > 0
  /\ lastResponse = RejectMessage
  /\ syncstatus = "Running"

\* The link and unlink commands for two members next to the sync task: one
\* generation, no /faceitsync, no shutdown; account 1 is linked at the start,
\* no member holds a role.
FileInit ==
  /\ Boot
  /\ Unsettled
  /\ links_file = <<<<1, "alice">>>>
  /\ guild_members = [g \in GuildSet |-> Accounts]
  /\ guild_roles = [g \in GuildSet |-> InitRoles[1]]
  /\ member_roles = [g \in GuildSet |-> [a \in Accounts |-> {}]]
  /\ Recorded

FileNext ==
  \/ setup_hook
  \/ BotReady
  \/ \E t \in Tasks : TaskStep(t)
  \/ \E t \in Tasks : IoStep(t)
  \/ \E permitted \in BOOLEAN, readable \in BOOLEAN : linkfaceit(2, "bob", permitted, readable)
  \/ \E c \in Cmds, user \in Accounts, permitted \in BOOLEAN, readable \in BOOLEAN :
       unlinkfaceit(c, user, permitted, readable)
  \/ \E c \in Cmds, ok \in BOOLEAN : CmdIoDone(c, ok)
  \/ \E c \in Cmds : CmdResume(c)

FileSpec == FileInit /\ [][FileNext]_vars

\* C24: under any interleaving of /linkfaceit and /unlinkfaceit commands with
\* each other and with the sync task, the file holds for every account the
\* username of the last link command performed for it, and no entry if there
\* was none or an unlink command came last; no account has two entries.
C24_NoLostUpdate ==
  \A a \in Accounts :
    /\ Stored(links_file, a) = last_link[a]
    /\ Cardinality({i \in 1..Len(links_file) : links_file[i][1] = a}) <= 1
====
